---- MODULE Spec2Model ----
(***************************************************************************)
(* Model of po/fill_translations.py (RustConn): the .po catalog parser,    *)
(* the entry codec (extract_msgid / extract_msgstr), the rebuilder and the *)
(* fill policy.  Text is modelled by TLA+ strings, character by character: *)
(* split, join, startswith, strip and the two regular expressions are      *)
(* computed as Python computes them.                                       *)
(***************************************************************************)
EXTENDS Integers, Sequences, FiniteSets, TLC

VARIABLES
    disk,                  \* bytes of the catalog file at `filepath`
    lang,                  \* the `lang` argument of fill_translations
    pc,                    \* position of the running call
    content,               \* parse_po_file: the text returned by f.read()
    rest,                  \* parse_po_file: lines the for loop has not consumed yet
    entries,               \* parse_po_file / fill_translations: list of entry dicts
    current_comments,      \* parse_po_file locals
    current_msgid_lines,
    current_msgstr_lines,
    in_msgid,
    in_msgstr,
    ei,                    \* fill_translations: index of the entry the for loop is at
    filled,                \* fill_translations: counter
    parsed,                \* history: the entries as parse_po_file returned them
    fills,                 \* history: indices of the entries the current call filled
    ret,                   \* history: value returned by each completed call
    after,                 \* history: file bytes at the return of each completed call
    reads,                 \* history: number of open(filepath, 'r')
    writes,                \* history: number of open(filepath, 'w')
    arg,                   \* input of a pure function under test
    res,                   \* its result
    mi,                    \* main: position in `languages` (0: main is not running)
    files,                 \* main: the catalog of each language code in po_dir
    total_filled,          \* main: counter
    log                    \* main: the lines printed so far

parserVars == <<content, rest, entries, current_comments, current_msgid_lines,
                current_msgstr_lines, in_msgid, in_msgstr>>
fillVars == <<ei, filled, parsed, fills>>
histVars == <<ret, after, reads, writes>>
pureVars == <<arg, res>>
mainVars == <<mi, files, total_filled, log>>
vars == <<disk, lang, pc, parserVars, fillVars, histVars, pureVars, mainVars>>

(***************************************************************************)
(* Bounds                                                                  *)
(***************************************************************************)
MaxLines == 5        \* lines of the catalog text drawn at Init
MaxRuns == 2         \* calls of fill_translations on the same file
MaxFieldLines == 3   \* lines of a field handed to the codec
MaxEntries == 2      \* entries handed to rebuild_po_file

(***************************************************************************)
(* Python string primitives                                                *)
(***************************************************************************)
CharAt(s, i) == SubSeq(s, i, i)

\* str.startswith
StartsWith(s, p) == Len(s) >= Len(p) /\ SubSeq(s, 1, Len(p)) = p

\* whitespace as str.strip() and the regex class \s see it: the characters c
\* with c.isspace(). In ASCII: space, \t, \n, U+000B, \f, \r, U+001C..U+001F
AsciiSpace == {" ", "\t", "\n", "", "\f", "\r", "", "", "", ""}

\* U+0085 and U+00A0
Latin1Space == {"", " "}

\* U+1680; the further characters with c.isspace() (U+2000..U+200A, U+2028,
\* U+2029, U+202F, U+205F, U+3000) cannot be written in a string of this
\* module, so that no text of the model holds one
UnicodeSpace == {" "}

IsSpace(c) == c \in AsciiSpace \cup Latin1Space \cup UnicodeSpace

\* line.strip() == ''
StripIsEmpty(s) == \A i \in 1..Len(s) : IsSpace(CharAt(s, i))

Min(S) == CHOOSE x \in S : \A y \in S : x <= y
Max(S) == CHOOSE x \in S : \A y \in S : x >= y

\* the text from position `start` on with each "\r\n" and each "\r" turned
\* into "\n"
RECURSIVE ReadFrom(_, _)
ReadFrom(s, start) ==
    LET cr == {i \in start..Len(s) : CharAt(s, i) = "\r"}
    IN  IF cr = {} THEN SubSeq(s, start, Len(s))
        ELSE SubSeq(s, start, Min(cr) - 1) \o "\n"
             \o ReadFrom(s, IF Min(cr) < Len(s) /\ CharAt(s, Min(cr) + 1) = "\n"
                            THEN Min(cr) + 2 ELSE Min(cr) + 1)

\* f.read() on open(filepath, 'r', encoding='utf-8'): text mode with the
\* default newline=None, which translates the line ends
ReadText(s) == ReadFrom(s, 1)

\* the pieces of s from position `start` on, cut at each "\n"
RECURSIVE SplitFrom(_, _)
SplitFrom(s, start) ==
    LET nl == {i \in start..Len(s) : CharAt(s, i) = "\n"}
    IN  IF nl = {} THEN <<SubSeq(s, start, Len(s))>>
        ELSE <<SubSeq(s, start, Min(nl) - 1)>> \o SplitFrom(s, Min(nl) + 1)

\* content.split('\n')
Split(s) == SplitFrom(s, 1)

\* '\n'.join(lines)
RECURSIVE JoinNL(_)
JoinNL(lines) ==
    IF lines = <<>> THEN ""
    ELSE IF Len(lines) = 1 THEN lines[1]
    ELSE lines[1] \o "\n" \o JoinNL(Tail(lines))

\* ''.join(parts) with a space put between the parts
RECURSIVE JoinEmpty_Spaced(_)
JoinEmpty_Spaced(parts) ==
    IF parts = <<>> THEN ""
    ELSE IF Len(parts) = 1 THEN parts[1]
    ELSE parts[1] \o " " \o JoinEmpty_Spaced(Tail(parts))

\* ''.join(parts)
RECURSIVE JoinEmpty(_)
JoinEmpty(parts) ==
    IF parts = <<>> THEN "" ELSE Head(parts) \o JoinEmpty(Tail(parts))

(***************************************************************************)
(* TRANSLATIONS (excerpt: three keys of the "de" and "it" tables)          *)
(***************************************************************************)
TRANSLATIONS ==
    ("de" :> (("Warning" :> "Warnung") @@ ("Info" :> "Info") @@ ("Retry" :> "Wiederholen")))
    @@
    ("it" :> (("Warning" :> "Avviso") @@ ("Info" :> "Info") @@ ("Retry" :> "Riprova")))

(***************************************************************************)
(* Entry codec                                                             *)
(***************************************************************************)
\* re.match(kw + r'\s+"(.*)"', line): <<group(1)>> on a match, <<>> on None.
\* kw = "" gives re.match(r'"(.*)"', line).
ReMatchQuoted(kw, line) ==
    IF ~StartsWith(line, kw) THEN <<>>
    ELSE
      LET n == Len(kw)
          nonsp == {i \in (n + 1)..Len(line) : ~IsSpace(CharAt(line, i))}
          q == IF nonsp = {} THEN Len(line) + 1 ELSE Min(nonsp)
      IN  IF (kw # "" /\ q = n + 1) \/ (kw = "" /\ q # 1) \/ q > Len(line)
             \/ CharAt(line, q) # "\""
          THEN <<>>
          ELSE
            LET nls == {i \in (q + 1)..Len(line) : CharAt(line, i) = "\n"}
                lim == IF nls = {} THEN Len(line) + 1 ELSE Min(nls)
                closers == {j \in (q + 1)..(lim - 1) : CharAt(line, j) = "\""}
            IN  IF closers = {} THEN <<>>
                ELSE <<SubSeq(line, q + 1, Max(closers) - 1)>>

\* the loop body of extract_msgid / extract_msgstr for one line
FieldPart(kw, line) ==
    IF StartsWith(line, kw \o " ") THEN ReMatchQuoted(kw, line)
    ELSE IF StartsWith(line, "\"") THEN ReMatchQuoted("", line)
    ELSE <<>>

RECURSIVE FieldParts(_, _)
FieldParts(kw, lines) ==
    IF lines = <<>> THEN <<>>
    ELSE FieldPart(kw, Head(lines)) \o FieldParts(kw, Tail(lines))

extract_msgid(msgid_lines) == JoinEmpty(FieldParts("msgid", msgid_lines))

extract_msgstr(msgstr_lines) == JoinEmpty(FieldParts("msgstr", msgstr_lines))

(***************************************************************************)
(* Catalog parser                                                          *)
(***************************************************************************)
Entry(c, i, s) == [comments |-> c, msgid_lines |-> i, msgstr_lines |-> s]

\* the parser's locals as one value
PState == [entries |-> entries,
           current_comments |-> current_comments,
           current_msgid_lines |-> current_msgid_lines,
           current_msgstr_lines |-> current_msgstr_lines,
           in_msgid |-> in_msgid,
           in_msgstr |-> in_msgstr]

\* the locals before the for loop
PInit == [entries |-> <<>>,
          current_comments |-> <<>>,
          current_msgid_lines |-> <<>>,
          current_msgstr_lines |-> <<>>,
          in_msgid |-> FALSE,
          in_msgstr |-> FALSE]

\* entries.insert(0, {...}) in place of entries.append({...})
Sealed_Prepend(st) == <<Entry(st.current_comments, st.current_msgid_lines,
                              st.current_msgstr_lines)>> \o st.entries

\* entries.append({...}) of the locals
Sealed(st) == Append(st.entries,
                     Entry(st.current_comments, st.current_msgid_lines,
                           st.current_msgstr_lines))

\* which branch of the if/elif chain takes the line
LineClass(st, line) ==
    IF StartsWith(line, "#") THEN "comment"
    ELSE IF StartsWith(line, "msgid ") THEN "msgid"
    ELSE IF StartsWith(line, "msgstr ") THEN "msgstr"
    ELSE IF StartsWith(line, "\"") /\ (st.in_msgid \/ st.in_msgstr) THEN "continuation"
    ELSE IF StripIsEmpty(line) THEN "blank"
    ELSE "other"

OnComment(st, line) ==
    IF st.in_msgstr /\ st.current_msgid_lines # <<>>
    THEN [st EXCEPT !.entries = Sealed(st),
                    !.current_comments = <<line>>,
                    !.current_msgid_lines = <<>>,
                    !.current_msgstr_lines = <<>>,
                    !.in_msgid = FALSE,
                    !.in_msgstr = FALSE]
    ELSE [st EXCEPT !.current_comments = Append(@, line)]

\* the msgid branch with the guard on current_msgid_lines alone
OnMsgid_SealsOnMsgid(st, line) ==
    IF st.current_msgid_lines # <<>>
    THEN [st EXCEPT !.entries = Sealed(st),
                    !.current_comments = <<>>,
                    !.current_msgid_lines = <<line>>,
                    !.current_msgstr_lines = <<>>,
                    !.in_msgid = TRUE,
                    !.in_msgstr = FALSE]
    ELSE [st EXCEPT !.current_msgid_lines = Append(@, line),
                    !.in_msgid = TRUE,
                    !.in_msgstr = FALSE]

OnMsgid(st, line) ==
    IF st.in_msgstr /\ st.current_msgid_lines # <<>>
    THEN [st EXCEPT !.entries = Sealed(st),
                    !.current_comments = <<>>,
                    !.current_msgid_lines = <<line>>,
                    !.current_msgstr_lines = <<>>,
                    !.in_msgid = TRUE,
                    !.in_msgstr = FALSE]
    ELSE [st EXCEPT !.current_msgid_lines = Append(@, line),
                    !.in_msgid = TRUE,
                    !.in_msgstr = FALSE]

\* the msgstr branch without in_msgid = False
OnMsgstr_KeepsMsgid(st, line) ==
    [st EXCEPT !.current_msgstr_lines = Append(@, line),
               !.in_msgstr = TRUE]

OnMsgstr(st, line) ==
    [st EXCEPT !.current_msgstr_lines = Append(@, line),
               !.in_msgid = FALSE,
               !.in_msgstr = TRUE]

\* the continuation branch without the test of in_msgid
OnContinuation_AlwaysMsgstr(st, line) ==
    [st EXCEPT !.current_msgstr_lines = Append(@, line)]

OnContinuation(st, line) ==
    IF st.in_msgid
    THEN [st EXCEPT !.current_msgid_lines = Append(@, line)]
    ELSE [st EXCEPT !.current_msgstr_lines = Append(@, line)]

\* the blank-line branch without the guard on in_msgstr and current_msgid_lines
OnBlank_AlwaysSeals(st, line) ==
    [st EXCEPT !.entries = Sealed(st),
               !.current_comments = <<>>,
               !.current_msgid_lines = <<>>,
               !.current_msgstr_lines = <<>>,
               !.in_msgid = FALSE,
               !.in_msgstr = FALSE]

\* the blank-line branch with the guard on current_msgid_lines alone
OnBlank_SealsOnMsgid(st, line) ==
    IF st.current_msgid_lines # <<>>
    THEN [st EXCEPT !.entries = Sealed(st),
                    !.current_comments = <<>>,
                    !.current_msgid_lines = <<>>,
                    !.current_msgstr_lines = <<>>,
                    !.in_msgid = FALSE,
                    !.in_msgstr = FALSE]
    ELSE st

OnBlank(st, line) ==
    IF st.in_msgstr /\ st.current_msgid_lines # <<>>
    THEN [st EXCEPT !.entries = Sealed(st),
                    !.current_comments = <<>>,
                    !.current_msgid_lines = <<>>,
                    !.current_msgstr_lines = <<>>,
                    !.in_msgid = FALSE,
                    !.in_msgstr = FALSE]
    ELSE st

\* the end of the input without the append of the last entry
OnEnd_Never(st) == st

\* "Don't forget the last entry"
OnEnd(st) ==
    IF st.current_msgid_lines # <<>>
    THEN [st EXCEPT !.entries = Sealed(st)]
    ELSE st

\* one iteration of the for loop
ParseLine(st, line) ==
    CASE LineClass(st, line) = "comment" -> OnComment(st, line)
      [] LineClass(st, line) = "msgid" -> OnMsgid(st, line)
      [] LineClass(st, line) = "msgstr" -> OnMsgstr(st, line)
      [] LineClass(st, line) = "continuation" -> OnContinuation(st, line)
      [] LineClass(st, line) = "blank" -> OnBlank(st, line)
      [] OTHER -> st

\* the for loop over a list of lines
RECURSIVE ParseLoop(_, _)
ParseLoop(st, lines) ==
    IF lines = <<>> THEN st ELSE ParseLoop(ParseLine(st, Head(lines)), Tail(lines))

\* parse_po_file on the text of the file
parse_po_file(text) == OnEnd(ParseLoop(PInit, Split(ReadText(text)))).entries

(***************************************************************************)
(* Catalog rebuilder                                                       *)
(***************************************************************************)
\* EntryLines without the comment block
EntryLines_NoComments(e) == e.msgid_lines \o e.msgstr_lines

\* EntryLines with the msgstr lines written before the msgid lines
EntryLines_MsgstrFirst(e) == e.comments \o e.msgstr_lines \o e.msgid_lines

\* the lines one entry contributes
EntryLines(e) == e.comments \o e.msgid_lines \o e.msgstr_lines

RECURSIVE RebuildLines(_, _)
RebuildLines(es, i) ==
    IF i > Len(es) THEN <<>>
    ELSE (IF i > 1 THEN <<"">> ELSE <<>>) \o EntryLines(es[i]) \o RebuildLines(es, i + 1)

\* rebuild_po_file without the final lines.append('')
rebuild_po_file_NoTrailing(es) == JoinNL(RebuildLines(es, 1))

rebuild_po_file(es) == JoinNL(RebuildLines(es, 1) \o <<"">>)

(***************************************************************************)
(* Fill policy                                                             *)
(***************************************************************************)
\* ShouldFill without the test of the existing translation
ShouldFill_AnyMsgstr(entry, trans) ==
    extract_msgid(entry.msgid_lines) \in DOMAIN trans

\* "Only fill if msgstr is empty and we have a translation"
ShouldFill(entry, trans) ==
    /\ extract_msgstr(entry.msgstr_lines) = ""
    /\ extract_msgid(entry.msgid_lines) \in DOMAIN trans

\* NewMsgstrLine without the quotes around the value
NewMsgstrLine_Unquoted(new_msgstr) == "msgstr " \o new_msgstr

\* NewMsgstrLine with the keyword of the other field
NewMsgstrLine_WrongKeyword(new_msgstr) == "msgid \"" \o new_msgstr \o "\""

\* f'msgstr "{new_msgstr}"'
NewMsgstrLine(new_msgstr) == "msgstr \"" \o new_msgstr \o "\""

\* MustRewrite without the test of the counter
MustRewrite_Always(n) == TRUE

\* if filled > 0
MustRewrite(n) == n > 0

(***************************************************************************)
(* Inputs                                                                  *)
(***************************************************************************)
LineSet == {"# c", "msgid \"Retry\"", "msgstr \"\"", "msgstr \"x\"", "\"\"",
            "msgctxt \"m\"", ""}

SeqsUpTo(S, n) == UNION {[1..k -> S] : k \in 0..n}

\* files with "\r\n" and with "\r" line ends, and with whitespace other than
\* the space (U+000B, a tab, U+001C) in a blank line and before the quote
EolTexts ==
    {"msgid \"Retry\"\r\nmsgstr \"\"\r\n",
     "# c\rmsgid \"Retry\"\rmsgstr \"x\"\r",
     "# c\r\n \r\nmsgid \"Retry\"\r\nmsgstr \t\"\"\r\n"}

\* every text of at most MaxLines lines of LineSet, with or without a final
\* newline, and the texts of EolTexts
Texts == {JoinNL(ls) : ls \in SeqsUpTo(LineSet, MaxLines)} \cup EolTexts

\* "xx" has no table
Langs == {"it", "xx"}

(***************************************************************************)
(* fill_translations, step by step                                         *)
(***************************************************************************)
SetPState(st) ==
    /\ entries' = st.entries
    /\ current_comments' = st.current_comments
    /\ current_msgid_lines' = st.current_msgid_lines
    /\ current_msgstr_lines' = st.current_msgstr_lines
    /\ in_msgid' = st.in_msgid
    /\ in_msgstr' = st.in_msgstr

\* fill_translations is called on its own, not from main
NoMain ==
    /\ mi = 0
    /\ files = <<>>
    /\ total_filled = 0
    /\ log = <<>>

\* fill_translations can be entered: by a caller of the function that calls it
\* up to MaxRuns times on the same file, or by main at the file it has reached
CanCall ==
    IF mi = 0 THEN pc \in {"idle", "returned"} /\ Len(ret) < MaxRuns
    ELSE pc = "idle"

Init ==
    /\ disk \in Texts
    /\ lang \in Langs
    /\ pc = "idle"
    /\ content = ""
    /\ rest = <<>>
    /\ entries = <<>>
    /\ current_comments = <<>>
    /\ current_msgid_lines = <<>>
    /\ current_msgstr_lines = <<>>
    /\ in_msgid = FALSE
    /\ in_msgstr = FALSE
    /\ ei = 0
    /\ filled = 0
    /\ parsed = <<>>
    /\ fills = {}
    /\ ret = <<>>
    /\ after = <<>>
    /\ reads = 0
    /\ writes = 0
    /\ arg = <<>>
    /\ res = <<>>
    /\ NoMain

\* if lang not in TRANSLATIONS: return 0
SkipLang ==
    /\ CanCall
    /\ lang \notin DOMAIN TRANSLATIONS
    /\ pc' = "returned"
    /\ ret' = Append(ret, 0)
    /\ after' = Append(after, disk)
    /\ UNCHANGED <<disk, lang, parserVars, fillVars, reads, writes, pureVars, mainVars>>

\* entries = parse_po_file(filepath): open, read, split, locals initialised
OpenRead ==
    /\ CanCall
    /\ lang \in DOMAIN TRANSLATIONS
    /\ content' = ReadText(disk)
    /\ rest' = Split(ReadText(disk))
    /\ SetPState(PInit)
    /\ ei' = 0
    /\ filled' = 0
    /\ parsed' = <<>>
    /\ fills' = {}
    /\ reads' = reads + 1
    /\ pc' = "parse"
    /\ UNCHANGED <<disk, lang, ret, after, writes, pureVars, mainVars>>

\* the for loop is at a line that the given branch of the if/elif chain takes
AtLine(class) ==
    /\ pc = "parse"
    /\ rest # <<>>
    /\ LineClass(PState, Head(rest)) = class

\* if line.startswith('#')
ParseComment ==
    /\ AtLine("comment")
    /\ SetPState(OnComment(PState, Head(rest)))
    /\ rest' = Tail(rest)
    /\ UNCHANGED <<disk, lang, pc, content, fillVars, histVars, pureVars, mainVars>>

\* elif line.startswith('msgid ')
ParseMsgid ==
    /\ AtLine("msgid")
    /\ SetPState(OnMsgid(PState, Head(rest)))
    /\ rest' = Tail(rest)
    /\ UNCHANGED <<disk, lang, pc, content, fillVars, histVars, pureVars, mainVars>>

\* elif line.startswith('msgstr ')
ParseMsgstr ==
    /\ AtLine("msgstr")
    /\ SetPState(OnMsgstr(PState, Head(rest)))
    /\ rest' = Tail(rest)
    /\ UNCHANGED <<disk, lang, pc, content, fillVars, histVars, pureVars, mainVars>>

\* elif line.startswith('"') and (in_msgid or in_msgstr)
ParseContinuation ==
    /\ AtLine("continuation")
    /\ SetPState(OnContinuation(PState, Head(rest)))
    /\ rest' = Tail(rest)
    /\ UNCHANGED <<disk, lang, pc, content, fillVars, histVars, pureVars, mainVars>>

\* elif line.strip() == ''
ParseBlank ==
    /\ AtLine("blank")
    /\ SetPState(OnBlank(PState, Head(rest)))
    /\ rest' = Tail(rest)
    /\ UNCHANGED <<disk, lang, pc, content, fillVars, histVars, pureVars, mainVars>>

\* a line that no branch takes, kept as a line of the msgid field
ParseOther_AsMsgidLine ==
    /\ AtLine("other")
    /\ current_msgid_lines' = Append(current_msgid_lines, Head(rest))
    /\ rest' = Tail(rest)
    /\ UNCHANGED <<disk, lang, pc, content, entries, current_comments,
                   current_msgstr_lines, in_msgid, in_msgstr,
                   fillVars, histVars, pureVars, mainVars>>

\* no branch of the chain takes the line
ParseOther ==
    /\ AtLine("other")
    /\ rest' = Tail(rest)
    /\ UNCHANGED <<disk, lang, pc, content, entries, current_comments,
                   current_msgid_lines, current_msgstr_lines, in_msgid, in_msgstr,
                   fillVars, histVars, pureVars, mainVars>>

\* end of the for loop, the last entry, return entries; filled = 0
ParseEnd ==
    /\ pc = "parse"
    /\ rest = <<>>
    /\ SetPState(OnEnd(PState))
    /\ parsed' = OnEnd(PState).entries
    /\ ei' = 1
    /\ filled' = 0
    /\ fills' = {}
    /\ pc' = "fill"
    /\ UNCHANGED <<disk, lang, content, rest, histVars, pureVars, mainVars>>

\* loop body, the if taken
FillEntry ==
    /\ pc = "fill"
    /\ ei <= Len(entries)
    /\ ShouldFill(entries[ei], TRANSLATIONS[lang])
    /\ entries' = [entries EXCEPT ![ei].msgstr_lines =
            <<NewMsgstrLine(TRANSLATIONS[lang][extract_msgid(entries[ei].msgid_lines)])>>]
    /\ filled' = filled + 1
    /\ fills' = fills \cup {ei}
    /\ ei' = ei + 1
    /\ UNCHANGED <<disk, lang, pc, content, rest, current_comments, current_msgid_lines,
                   current_msgstr_lines, in_msgid, in_msgstr, parsed, histVars, pureVars, mainVars>>

\* loop body, the if not taken
KeepEntry ==
    /\ pc = "fill"
    /\ ei <= Len(entries)
    /\ ~ShouldFill(entries[ei], TRANSLATIONS[lang])
    /\ ei' = ei + 1
    /\ UNCHANGED <<disk, lang, pc, parserVars, filled, parsed, fills, histVars, pureVars, mainVars>>

\* if filled > 0: rebuild, open(filepath, 'w'), write; return filled
Rewrite ==
    /\ pc = "fill"
    /\ ei > Len(entries)
    /\ MustRewrite(filled)
    /\ disk' = rebuild_po_file(entries)
    /\ writes' = writes + 1
    /\ ret' = Append(ret, filled)
    /\ after' = Append(after, disk')
    /\ pc' = "returned"
    /\ UNCHANGED <<lang, parserVars, fillVars, reads, pureVars, mainVars>>

\* filled == 0: return filled
ReturnUntouched ==
    /\ pc = "fill"
    /\ ei > Len(entries)
    /\ ~MustRewrite(filled)
    /\ ret' = Append(ret, filled)
    /\ after' = Append(after, disk)
    /\ pc' = "returned"
    /\ UNCHANGED <<disk, lang, parserVars, fillVars, reads, writes, pureVars, mainVars>>

Next ==
    \/ SkipLang
    \/ OpenRead
    \/ ParseComment
    \/ ParseMsgid
    \/ ParseMsgstr
    \/ ParseContinuation
    \/ ParseBlank
    \/ ParseOther
    \/ ParseEnd
    \/ FillEntry
    \/ KeepEntry
    \/ Rewrite
    \/ ReturnUntouched

Spec == Init /\ [][Next]_vars

(***************************************************************************)
(* Vocabulary of the properties                                            *)
(***************************************************************************)
Last(s) == s[Len(s)]

Returned == pc = "returned" /\ ret # <<>>

\* the call that has just returned went through parse and fill
Processed == Returned /\ lang \in DOMAIN TRANSLATIONS

NonBlank(lines) == SelectSeq(lines, LAMBDA l : ~StripIsEmpty(l))

\* the entry (by its index in the parse result) whose msgstr field takes line i
\* of the text, 0 when the line goes to no msgstr field
MsgstrOwner(lines, i) ==
    LET pre == ParseLoop(PInit, SubSeq(lines, 1, i - 1))
        c == LineClass(pre, lines[i])
    IN  IF c = "msgstr" \/ (c = "continuation" /\ ~pre.in_msgid)
        THEN Len(pre.entries) + 1
        ELSE 0

\* the non-blank lines of the text that are not msgstr lines of an entry in F
RECURSIVE KeptFrom(_, _, _)
KeptFrom(lines, i, F) ==
    IF i > Len(lines) THEN <<>>
    ELSE (IF ~StripIsEmpty(lines[i]) /\ MsgstrOwner(lines, i) \notin F
          THEN <<lines[i]>> ELSE <<>>) \o KeptFrom(lines, i + 1, F)

\* the msgstr lines of the entries in F, in entry order
RECURSIVE MsgstrOf(_, _, _)
MsgstrOf(es, i, F) ==
    IF i > Len(es) THEN <<>>
    ELSE (IF i \in F THEN es[i].msgstr_lines ELSE <<>>) \o MsgstrOf(es, i + 1, F)

\* a is an interleaving of k and r, each in its own order
RECURSIVE IsShuffle(_, _, _)
IsShuffle(a, k, r) ==
    IF a = <<>> THEN k = <<>> /\ r = <<>>
    ELSE \/ k # <<>> /\ Head(a) = Head(k) /\ IsShuffle(Tail(a), Tail(k), r)
         \/ r # <<>> /\ Head(a) = Head(r) /\ IsShuffle(Tail(a), k, Tail(r))

(***************************************************************************)
(* C1: when a call fills at least one entry, the non-blank lines of the    *)
(* rewritten file are the non-blank lines of the original file that are    *)
(* not msgstr lines of a filled entry, unchanged and in their order,       *)
(* interleaved with one replacement msgstr line per filled entry and       *)
(* nothing else.                                                           *)
(***************************************************************************)
C1_EndToEndPreservation ==
    (Processed /\ Last(ret) > 0) =>
        IsShuffle(NonBlank(Split(disk)),
                  KeptFrom(Split(content), 1, fills),
                  MsgstrOf(entries, 1, fills))

(***************************************************************************)
(* C2: a text made of gettext records (comments, an optional msgctxt, a    *)
(* msgid field, a msgstr field), separated by single blank lines and ended *)
(* by a single newline, is returned byte for byte by                       *)
(* rebuild_po_file(parse_po_file(text)).                                   *)
(***************************************************************************)
LineKind(l) ==
    IF StartsWith(l, "#") THEN "comment"
    ELSE IF StartsWith(l, "msgctxt ") THEN "msgctxt"
    ELSE IF StartsWith(l, "msgid ") THEN "msgid"
    ELSE IF StartsWith(l, "msgstr ") THEN "msgstr"
    ELSE IF StartsWith(l, "\"") THEN "quoted"
    ELSE IF StripIsEmpty(l) THEN "blank"
    ELSE "other"

\* the grammar of one record: comments, [msgctxt], msgid, msgstr, each field
\* with its quoted continuation lines
RecordStep(q, k) ==
    CASE q = "start" /\ k = "comment" -> "start"
      [] q = "start" /\ k = "msgctxt" -> "msgctxt"
      [] q = "msgctxt" /\ k = "quoted" -> "msgctxt"
      [] q \in {"start", "msgctxt"} /\ k = "msgid" -> "msgid"
      [] q = "msgid" /\ k = "quoted" -> "msgid"
      [] q = "msgid" /\ k = "msgstr" -> "msgstr"
      [] q = "msgstr" /\ k = "quoted" -> "msgstr"
      [] OTHER -> "bad"

RECURSIVE RecordRun(_, _)
RecordRun(q, block) ==
    IF block = <<>> THEN q
    ELSE RecordRun(RecordStep(q, LineKind(Head(block))), Tail(block))

IsRecord(block) == RecordRun("start", block) = "msgstr"

\* the maximal runs of non-empty lines, in order
RECURSIVE BlocksOf(_)
BlocksOf(lines) ==
    IF lines = <<>> THEN <<>>
    ELSE IF Head(lines) = "" THEN BlocksOf(Tail(lines))
    ELSE LET stops == {i \in 1..Len(lines) : lines[i] = ""}
             n == IF stops = {} THEN Len(lines) ELSE Min(stops) - 1
         IN  <<SubSeq(lines, 1, n)>> \o BlocksOf(SubSeq(lines, n + 1, Len(lines)))

EndsWithOneNewline(text) ==
    /\ Len(text) >= 1
    /\ CharAt(text, Len(text)) = "\n"
    /\ Len(text) >= 2 => CharAt(text, Len(text) - 1) # "\n"

Normalized(text) ==
    LET lines == Split(text)
    IN  /\ EndsWithOneNewline(text)
        /\ lines[1] # ""
        /\ \A i \in 1..(Len(lines) - 1) : ~(lines[i] = "" /\ lines[i + 1] = "")
        /\ \A i \in 1..Len(lines) : StripIsEmpty(lines[i]) => lines[i] = ""
        /\ \A b \in 1..Len(BlocksOf(lines)) : IsRecord(BlocksOf(lines)[b])

ParseReturned == pc \in {"fill", "returned"} /\ lang \in DOMAIN TRANSLATIONS

C2_NormalizedRoundTrip ==
    (ParseReturned /\ Normalized(content)) => rebuild_po_file(parsed) = content

(***************************************************************************)
(* C3: every non-blank line of the text appears exactly once in the        *)
(* comments, msgid_lines or msgstr_lines of exactly one returned entry,    *)
(* and an entry is sealed only at a blank line, a comment line or a msgid  *)
(* line that arrives while a msgstr field is open, or at the end of input. *)
(***************************************************************************)
RECURSIVE AllEntryLines(_)
AllEntryLines(es) ==
    IF es = <<>> THEN <<>> ELSE EntryLines(Head(es)) \o AllEntryLines(Tail(es))

Count(x, s) == Cardinality({i \in 1..Len(s) : s[i] = x})

SameLines(s, t) ==
    /\ Len(s) = Len(t)
    /\ \A i \in 1..Len(s) : Count(s[i], s) = Count(s[i], t)

C3_LinesKept ==
    ParseReturned => SameLines(NonBlank(Split(content)), AllEntryLines(parsed))

C3_SealedAtBoundary ==
    (pc = "parse" /\ entries' # entries) =>
        /\ Len(entries') = Len(entries) + 1
        /\ \/ rest = <<>>
           \/ in_msgstr /\ LineKind(Head(rest)) \in {"blank", "comment", "msgid"}

C3_ParserLinePreservation == [](C3_LinesKept) /\ [][C3_SealedAtBoundary]_vars

(***************************************************************************)
(* Fill policy: vocabulary                                                 *)
(***************************************************************************)
Trans == TRANSLATIONS[lang]

\* entry i of the parse result already has a translation
HasTranslation(i) == extract_msgstr(parsed[i].msgstr_lines) # ""

\* the table has a mapping for the msgid of entry i of the parse result
InTable(i) == extract_msgid(parsed[i].msgid_lines) \in DOMAIN Trans

TableValue(i) == Trans[extract_msgid(parsed[i].msgid_lines)]

\* the fill loop has gone past entry i
Visited(i) == (pc = "fill" /\ i < ei) \/ pc = "returned"

(***************************************************************************)
(* C4: an entry whose decoded msgstr is not empty keeps its msgstr_lines,  *)
(* also when the table maps its msgid; and msgstr_lines of any entry is    *)
(* either the original or the complete replacement line, never a mixture.  *)
(***************************************************************************)
C4_ConservativeOverwrite ==
    ParseReturned =>
        /\ Len(entries) = Len(parsed)
        /\ \A i \in 1..Len(parsed) :
              /\ HasTranslation(i) => entries[i].msgstr_lines = parsed[i].msgstr_lines
              /\ entries[i].msgstr_lines # parsed[i].msgstr_lines =>
                    /\ InTable(i)
                    /\ entries[i].msgstr_lines = <<"msgstr \"" \o TableValue(i) \o "\"">>

\* a translated entry whose msgid is in the table was passed over while
\* another entry of the same file was filled
C4_Witness ==
    /\ Processed
    /\ Last(ret) > 0
    /\ \E i \in 1..Len(parsed) :
          HasTranslation(i) /\ InTable(i) /\ entries[i] = parsed[i]

(***************************************************************************)
(* C5: once the loop has passed it, an entry with empty decoded msgstr and *)
(* a msgid in the table holds the single line msgstr "<value>", which      *)
(* decodes to the table value; the call returns the number of such         *)
(* entries.                                                                *)
(***************************************************************************)
Fillable == {i \in 1..Len(parsed) : ~HasTranslation(i) /\ InTable(i)}

C5_ExactFill ==
    ParseReturned =>
        /\ \A i \in Fillable : Visited(i) =>
              /\ entries[i].msgstr_lines = <<"msgstr \"" \o TableValue(i) \o "\"">>
              /\ extract_msgstr(entries[i].msgstr_lines) = TableValue(i)
        /\ pc = "returned" => Last(ret) = Cardinality(Fillable)

\* a msgstr field of two lines that decodes to the empty string was replaced
C5_Witness ==
    /\ Processed
    /\ \E i \in Fillable :
          /\ Len(parsed[i].msgstr_lines) >= 2
          /\ Len(entries[i].msgstr_lines) = 1
    /\ Last(ret) >= 1

(***************************************************************************)
(* C6: a second call on the file the first call left, same language,       *)
(* returns 0 and leaves the file as the first call left it.                *)
(***************************************************************************)
C6_FillIdempotent ==
    \A k \in 2..Len(ret) : ret[k] = 0 /\ after[k] = after[k - 1]

\* the first call filled and rewrote, the second has returned
C6_Witness ==
    /\ pc = "returned"
    /\ Len(ret) >= 2
    /\ ret[1] > 0
    /\ writes = 1
    /\ disk = after[1]

(***************************************************************************)
(* C7: a call that fills nothing does not open the file for writing and    *)
(* leaves its bytes as they were read; the file is written, once and as a  *)
(* whole, only by a call whose fill count is positive.                     *)
(***************************************************************************)
C7_Step ==
    /\ Len(ret') > Len(ret) =>
          IF Last(ret') = 0
          THEN /\ disk' = disk
               /\ writes' = writes
               /\ lang \in DOMAIN TRANSLATIONS => ReadText(disk') = content
          ELSE /\ writes' = writes + 1
               /\ disk' = rebuild_po_file(entries)
    /\ (disk' # disk \/ writes' # writes) => (Len(ret') > Len(ret) /\ Last(ret') > 0)

C7_NoFillUntouched == [][C7_Step]_vars

\* a file that is not in the rebuilt form was parsed into entries, nothing
\* was filled and the bytes are those that were read
C7_Witness ==
    /\ Processed
    /\ Last(ret) = 0
    /\ writes = 0
    /\ parsed # <<>>
    /\ rebuild_po_file(parsed) # content
    /\ ReadText(disk) = content

(***************************************************************************)
(* C8: an entry whose decoded msgstr is not empty or whose msgid is not in *)
(* the table is left as parsed, and rebuild_po_file emits its comments,    *)
(* msgid lines and msgstr lines verbatim, in that order, as one block; a   *)
(* filled entry is emitted with its comments and msgid lines unchanged.    *)
(***************************************************************************)
C8_UntouchedRoundTrip ==
    Processed =>
        LET blocks == BlocksOf(Split(rebuild_po_file(entries)))
        IN  /\ Len(blocks) = Len(parsed)
            /\ Last(ret) > 0 => disk = rebuild_po_file(entries)
            /\ \A i \in 1..Len(parsed) :
                  IF HasTranslation(i) \/ ~InTable(i)
                  THEN /\ entries[i] = parsed[i]
                       /\ blocks[i] = parsed[i].comments \o parsed[i].msgid_lines
                                        \o parsed[i].msgstr_lines
                  ELSE /\ entries[i].comments = parsed[i].comments
                       /\ entries[i].msgid_lines = parsed[i].msgid_lines
                       /\ SubSeq(blocks[i], 1, Len(blocks[i]) - 1) =
                             parsed[i].comments \o parsed[i].msgid_lines

\* a commented entry was left alone and written back next to a filled one
C8_Witness ==
    /\ Processed
    /\ Last(ret) > 0
    /\ \E i \in 1..Len(parsed) :
          /\ HasTranslation(i) \/ ~InTable(i)
          /\ parsed[i].comments # <<>>
          /\ parsed[i].msgstr_lines # <<>>

(***************************************************************************)
(* The codec on its own: a field is written out from its fragments, one    *)
(* quoted line per fragment, and decoded.                                  *)
(***************************************************************************)
Fragments == {"", "Part one ", "part two", "a\"b"}

\* the keyword line and the continuation lines that carry the fragments
FieldLines(kw, frags) ==
    [i \in 1..Len(frags) |->
        IF i = 1 THEN kw \o " \"" \o frags[i] \o "\"" ELSE "\"" \o frags[i] \o "\""]

Quiet ==
    /\ disk = ""
    /\ lang = "it"
    /\ content = ""
    /\ rest = <<>>
    /\ entries = <<>>
    /\ current_comments = <<>>
    /\ current_msgid_lines = <<>>
    /\ current_msgstr_lines = <<>>
    /\ in_msgid = FALSE
    /\ in_msgstr = FALSE
    /\ ei = 0
    /\ filled = 0
    /\ parsed = <<>>
    /\ fills = {}
    /\ ret = <<>>
    /\ after = <<>>
    /\ reads = 0
    /\ writes = 0
    /\ res = <<>>
    /\ NoMain

InitDecode ==
    /\ Quiet
    /\ pc = "decode"
    /\ \E kw \in {"msgid", "msgstr"} :
       \E frags \in SeqsUpTo(Fragments, MaxFieldLines) \ {<<>>} :
          arg = [kw |-> kw, frags |-> frags, lines |-> FieldLines(kw, frags)]

DecodeMsgid ==
    /\ pc = "decode"
    /\ arg.kw = "msgid"
    /\ res' = extract_msgid(arg.lines)
    /\ pc' = "decoded"
    /\ UNCHANGED <<disk, lang, parserVars, fillVars, histVars, arg, mainVars>>

DecodeMsgstr ==
    /\ pc = "decode"
    /\ arg.kw = "msgstr"
    /\ res' = extract_msgstr(arg.lines)
    /\ pc' = "decoded"
    /\ UNCHANGED <<disk, lang, parserVars, fillVars, histVars, arg, mainVars>>

NextDecode == DecodeMsgid \/ DecodeMsgstr

SpecDecode == InitDecode /\ [][NextDecode]_vars

(***************************************************************************)
(* C9: the decoded value of a field is the concatenation, in line order    *)
(* and with nothing in between, of the text between the outer quotes of    *)
(* the keyword line and of each continuation line; an empty keyword line   *)
(* adds nothing.                                                           *)
(***************************************************************************)
RECURSIVE Concat(_)
Concat(frags) == IF frags = <<>> THEN "" ELSE Head(frags) \o Concat(Tail(frags))

C9_MultiLineDecode == pc = "decoded" => res = Concat(arg.frags)

\* msgid "" / "Part one " / "part two" decoded to Part one part two
C9_Witness ==
    /\ pc = "decoded"
    /\ arg.lines = <<"msgid \"\"", "\"Part one \"", "\"part two\"">>
    /\ res = "Part one part two"

(***************************************************************************)
(* The rebuilder on its own                                                *)
(***************************************************************************)
EntrySet ==
    {Entry(c, i, s) :
        c \in {<<>>, <<"# c">>},
        i \in {<<"msgid \"Retry\"">>, <<"msgid \"\"", "\"Retry\"">>},
        s \in {<<>>, <<"msgstr \"\"">>, <<"msgstr \"x\"">>}}

InitRebuild ==
    /\ Quiet
    /\ pc = "rebuild"
    /\ arg \in SeqsUpTo(EntrySet, MaxEntries)

RebuildEntries ==
    /\ pc = "rebuild"
    /\ res' = rebuild_po_file(arg)
    /\ pc' = "rebuilt"
    /\ UNCHANGED <<disk, lang, parserVars, fillVars, histVars, arg, mainVars>>

NextRebuild == RebuildEntries

SpecRebuild == InitRebuild /\ [][NextRebuild]_vars

\* the text is the entries' lines, entry after entry, one empty line between
\* two entries, none before the first, and one newline at the very end
RebuildFormat ==
    LET lines == Split(res)
    IN  /\ EndsWithOneNewline(res)
        /\ lines[1] # ""
        /\ Count("", lines) = Len(arg)
        /\ \A i \in 1..(Len(lines) - 1) : ~(lines[i] = "" /\ lines[i + 1] = "")
        /\ Len(BlocksOf(lines)) = Len(arg)
        /\ \A i \in 1..Len(arg) :
              BlocksOf(lines)[i] = arg[i].comments \o arg[i].msgid_lines
                                     \o arg[i].msgstr_lines

(***************************************************************************)
(* C10 as stated: for any sequence of entries the rebuilt text separates   *)
(* consecutive entries by exactly one blank line, has no blank line before *)
(* the first entry and ends with exactly one newline.                      *)
(***************************************************************************)
C10_RebuildFormatAnySequence == pc = "rebuilt" => RebuildFormat

(***************************************************************************)
(* C10 amended: the same for any sequence of at least one entry.           *)
(***************************************************************************)
C10_RebuildFormat == (pc = "rebuilt" /\ arg # <<>>) => RebuildFormat

\* two entries, the first with a comment, were rebuilt
C10_Witness ==
    /\ pc = "rebuilt"
    /\ Len(arg) = 2
    /\ arg[1].comments # <<>>
    /\ res = JoinNL(arg[1].comments \o arg[1].msgid_lines \o arg[1].msgstr_lines
                    \o <<"">> \o arg[2].comments \o arg[2].msgid_lines
                    \o arg[2].msgstr_lines \o <<"">>)

(***************************************************************************)
(* Catalogs made of whole records                                          *)
(***************************************************************************)
MaxRecords == 3      \* records of a catalog drawn at InitCatalog

\* a record to fill, a translated record with two comments, a plural-form
\* record, a record whose fields run over several lines
RecordSet ==
    {<<"msgid \"Retry\"", "msgstr \"\"">>,
     <<"#. note", "#: main.rs:1", "msgid \"Info\"", "msgstr \"x\"">>,
     <<"msgid \"Warning\"", "msgid_plural \"Warnings\"", "msgstr[0] \"\"",
       "msgstr[1] \"\"">>,
     <<"# c", "msgid \"\"", "\"Retry\"", "msgstr \"\"", "\"\"">>}

\* the records one after the other, an empty line between two of them, and an
\* empty last line for the final newline
RECURSIVE CatalogLines(_)
CatalogLines(records) ==
    IF records = <<>> THEN <<"">>
    ELSE IF Len(records) = 1 THEN records[1] \o <<"">>
    ELSE records[1] \o <<"">> \o CatalogLines(Tail(records))

CatalogText(records) == JoinNL(CatalogLines(records))

CatalogTexts == {CatalogText(rs) : rs \in SeqsUpTo(RecordSet, MaxRecords) \ {<<>>}}

InitCatalog ==
    /\ disk \in CatalogTexts
    /\ lang \in Langs
    /\ pc = "idle"
    /\ content = ""
    /\ rest = <<>>
    /\ entries = <<>>
    /\ current_comments = <<>>
    /\ current_msgid_lines = <<>>
    /\ current_msgstr_lines = <<>>
    /\ in_msgid = FALSE
    /\ in_msgstr = FALSE
    /\ ei = 0
    /\ filled = 0
    /\ parsed = <<>>
    /\ fills = {}
    /\ ret = <<>>
    /\ after = <<>>
    /\ reads = 0
    /\ writes = 0
    /\ arg = <<>>
    /\ res = <<>>
    /\ NoMain

SpecCatalog == InitCatalog /\ [][Next]_vars

\* the for loop of fill_translations over a whole entry list
FillAll(es, trans) ==
    [i \in 1..Len(es) |->
        IF ShouldFill(es[i], trans)
        THEN [es[i] EXCEPT !.msgstr_lines =
                 <<NewMsgstrLine(trans[extract_msgid(es[i].msgid_lines)])>>]
        ELSE es[i]]

\* the entry (by its index in the parse result) that takes line i of the
\* text; 0 when no list takes the line
LineOwner(lines, i) ==
    LET pre == ParseLoop(PInit, SubSeq(lines, 1, i - 1))
        post == ParseLine(pre, lines[i])
    IN  IF LineClass(pre, lines[i]) \in {"comment", "msgid", "msgstr", "continuation"}
        THEN Len(post.entries) + 1
        ELSE 0

\* the record (maximal run of non-empty lines) that line i of the text is in
BlockAt(lines, i) ==
    Cardinality({j \in 1..i : lines[j] # "" /\ (j = 1 \/ lines[j - 1] = "")})

IsPlural(block) == \E j \in 1..Len(block) : StartsWith(block[j], "msgid_plural ")

CommentsOf(lines) == SelectSeq(lines, LAMBDA l : StartsWith(l, "#"))

(***************************************************************************)
(* C11: a text of two records with one blank line between them parses into *)
(* two entries, each holding lines of its own record only; a text of one   *)
(* record that begins with comment lines gives an entry whose comments are *)
(* those lines in their order, and so does the rebuilt text.               *)
(***************************************************************************)
C11_StructuralBoundary ==
    ParseReturned =>
        LET lines == Split(content)
            blocks == BlocksOf(lines)
        IN  /\ Len(blocks) = 2 =>
                  /\ Len(parsed) = 2
                  /\ \A i \in 1..Len(lines) :
                        LineOwner(lines, i) # 0 => LineOwner(lines, i) = BlockAt(lines, i)
            /\ (Len(blocks) = 1 /\ IsRecord(blocks[1])) =>
                  /\ Len(parsed) = 1
                  /\ parsed[1].comments = CommentsOf(blocks[1])
                  /\ CommentsOf(Split(rebuild_po_file(parsed))) = CommentsOf(blocks[1])

(***************************************************************************)
(* C13: no entry that holds a line of a plural-form record is filled, and  *)
(* the entries that hold no such line come out of parse and fill as the    *)
(* entries of the same text without its plural-form records.               *)
(***************************************************************************)
C13_PluralOpaque ==
    Processed =>
        LET lines == Split(content)
            blocks == BlocksOf(lines)
            pluralLines == {i \in 1..Len(lines) :
                               lines[i] # "" /\ IsPlural(blocks[BlockAt(lines, i)])}
            tainted == {LineOwner(lines, i) : i \in pluralLines}
            others == SelectSeq(blocks, LAMBDA b : ~IsPlural(b))
            kept == {e \in 1..Len(entries) : e \notin tainted}
            keptSeq == [k \in 1..Cardinality(kept) |->
                          entries[CHOOSE e \in kept :
                                     Cardinality({d \in kept : d <= e}) = k]]
        IN  /\ fills \cap tainted = {}
            /\ keptSeq = FillAll(parse_po_file(CatalogText(others)), Trans)

(***************************************************************************)
(* main: the loop over the language codes                                  *)
(***************************************************************************)
\* the list `languages` (excerpt: the two codes whose tables TRANSLATIONS holds)
languages == <<"de", "it">>

\* what po_dir may hold for a language code: no file, or a file with a text
MainTexts ==
    {"msgid \"Retry\"\nmsgstr \"\"\n",
     "# c\nmsgid \"\"\n\"Info\"\nmsgstr \"x\"\n\nmsgctxt \"m\""}

FileStates ==
    {[exists |-> FALSE, text |-> ""]} \cup {[exists |-> TRUE, text |-> t] : t \in MainTexts}

LangCodes == {languages[i] : i \in 1..Len(languages)}

\* either main runs over po_dir, or fill_translations is called on its own
InitMain ==
    /\ content = ""
    /\ rest = <<>>
    /\ entries = <<>>
    /\ current_comments = <<>>
    /\ current_msgid_lines = <<>>
    /\ current_msgstr_lines = <<>>
    /\ in_msgid = FALSE
    /\ in_msgstr = FALSE
    /\ ei = 0
    /\ filled = 0
    /\ parsed = <<>>
    /\ fills = {}
    /\ ret = <<>>
    /\ after = <<>>
    /\ reads = 0
    /\ writes = 0
    /\ arg = <<>>
    /\ res = <<>>
    /\ \/ /\ pc = "main"
          /\ mi = 1
          /\ files \in [LangCodes -> FileStates]
          /\ total_filled = 0
          /\ log = <<>>
          /\ disk = ""
          /\ lang = ""
       \/ /\ pc = "idle"
          /\ NoMain
          /\ disk \in MainTexts
          /\ lang \in Langs

\* if not os.path.exists(filepath): print SKIP, continue; as an unhandled error
MainSkipMissing_Raises ==
    /\ pc = "main"
    /\ mi \in 1..Len(languages)
    /\ ~files[languages[mi]].exists
    /\ pc' = "error"
    /\ UNCHANGED <<disk, lang, parserVars, fillVars, histVars, pureVars, mainVars>>

\* if not os.path.exists(filepath): print SKIP, continue
MainSkipMissing ==
    /\ pc = "main"
    /\ mi \in 1..Len(languages)
    /\ ~files[languages[mi]].exists
    /\ log' = Append(log, [kind |-> "skip", lang |-> languages[mi], n |-> 0])
    /\ mi' = mi + 1
    /\ UNCHANGED <<disk, lang, pc, parserVars, fillVars, histVars, pureVars,
                   files, total_filled>>

\* the file exists: fill_translations(filepath, lang) is entered
MainCall ==
    /\ pc = "main"
    /\ mi \in 1..Len(languages)
    /\ files[languages[mi]].exists
    /\ lang' = languages[mi]
    /\ disk' = files[languages[mi]].text
    /\ pc' = "idle"
    /\ UNCHANGED <<parserVars, fillVars, histVars, pureVars, mainVars>>

\* total_filled = filled in place of total_filled += filled
MainReport_Overwrites ==
    /\ pc = "returned"
    /\ mi > 0
    /\ files' = [files EXCEPT ![lang].text = disk]
    /\ total_filled' = Last(ret)
    /\ log' = Append(log, [kind |-> "filled", lang |-> lang, n |-> Last(ret)])
    /\ mi' = mi + 1
    /\ pc' = "main"
    /\ UNCHANGED <<disk, lang, parserVars, fillVars, histVars, pureVars>>

\* total_filled += filled; print the count of the language; next language
MainReport ==
    /\ pc = "returned"
    /\ mi > 0
    /\ files' = [files EXCEPT ![lang].text = disk]
    /\ total_filled' = total_filled + Last(ret)
    /\ log' = Append(log, [kind |-> "filled", lang |-> lang, n |-> Last(ret)])
    /\ mi' = mi + 1
    /\ pc' = "main"
    /\ UNCHANGED <<disk, lang, parserVars, fillVars, histVars, pureVars>>

\* after the loop: print the total
MainTotal ==
    /\ pc = "main"
    /\ mi = Len(languages) + 1
    /\ log' = Append(log, [kind |-> "total", lang |-> "", n |-> total_filled])
    /\ pc' = "exit"
    /\ UNCHANGED <<disk, lang, parserVars, fillVars, histVars, pureVars,
                   mi, files, total_filled>>

NextMain ==
    \/ Next
    \/ MainSkipMissing
    \/ MainCall
    \/ MainReport
    \/ MainTotal

\* the program is one thread that runs until it returns
SpecMain == InitMain /\ [][NextMain]_vars /\ WF_vars(NextMain)

(***************************************************************************)
(* C12: a call for a language code without a table returns 0 at once,      *)
(* without opening the file for reading or writing; main reports a missing *)
(* catalog as skipped and goes on, so that it visits every language code   *)
(* in turn and comes to its end.                                           *)
(***************************************************************************)
C12_UnknownLanguageStep ==
    (CanCall /\ lang \notin DOMAIN TRANSLATIONS) =>
        /\ pc' = "returned"
        /\ ret' = Append(ret, 0)
        /\ reads' = reads
        /\ writes' = writes
        /\ disk' = disk

C12_EveryLanguageVisited ==
    mi > 0 =>
        /\ \A k \in 1..Len(log) : k <= Len(languages) =>
              /\ log[k].lang = languages[k]
              /\ log[k].kind = "skip" <=> ~files[languages[k]].exists
        /\ pc # "error"
        /\ pc = "exit" => Len(log) = Len(languages) + 1 /\ mi = Len(languages) + 1

C12_MissingFileMissingLanguage ==
    /\ [][C12_UnknownLanguageStep]_vars
    /\ [](C12_EveryLanguageVisited)
    /\ (pc = "main" ~> pc = "exit")

\* main came to its end after it skipped a missing catalog and then filled
\* the catalog of the next language
C12_Witness ==
    /\ pc = "exit"
    /\ \E k \in 1..(Len(languages) - 1) :
          /\ log[k].kind = "skip"
          /\ log[k + 1].kind = "filled"
          /\ log[k + 1].n > 0

(***************************************************************************)
(* C14: for any text, normalized or not, parsing the rebuilt text of the   *)
(* parsed entries gives back the same entries: the same number of entries  *)
(* with the same comments, msgid_lines and msgstr_lines.                   *)
(***************************************************************************)
\* parse_po_file has just returned to fill_translations
JustParsed == pc = "fill" /\ ei = 1 /\ lang \in DOMAIN TRANSLATIONS

C14_InformationRoundTrip ==
    JustParsed => parse_po_file(rebuild_po_file(parsed)) = parsed

\* two entries parsed from a text that the rebuild does not give back: it has
\* two blank lines in a row and no trailing newline
C14_Witness ==
    /\ JustParsed
    /\ Len(parsed) = 2
    /\ ~EndsWithOneNewline(content)
    /\ \E i \in 1..(Len(Split(content)) - 1) :
          Split(content)[i] = "" /\ Split(content)[i + 1] = ""
    /\ rebuild_po_file(parsed) # content

(***************************************************************************)
(* C15: a msgid line that arrives while the msgstr field is open seals the *)
(* current entry with its own comments, msgid_lines and msgstr_lines, and  *)
(* starts a fresh entry whose msgid_lines holds only that line and whose   *)
(* comments and msgstr_lines are empty.                                    *)
(***************************************************************************)
\* the for loop is at a line with the given prefix while in_msgstr is set
MsgstrOpenAt(prefix) ==
    /\ pc = "parse"
    /\ rest # <<>>
    /\ in_msgstr
    /\ StartsWith(Head(rest), prefix)

C15_Step ==
    MsgstrOpenAt("msgid ") =>
        /\ entries' = Append(entries, Entry(current_comments, current_msgid_lines,
                                            current_msgstr_lines))
        /\ current_msgid_lines' = <<Head(rest)>>
        /\ current_comments' = <<>>
        /\ current_msgstr_lines' = <<>>

C15_MsgidSealsOpenMsgstr == [][C15_Step]_vars

(***************************************************************************)
(* C16: a comment line that arrives while the msgstr field is open first   *)
(* seals the current entry, and the comment line becomes the first comment *)
(* of the next entry; it is not attached to the sealed entry.              *)
(***************************************************************************)
C16_Step ==
    MsgstrOpenAt("#") =>
        /\ entries' = Append(entries, Entry(current_comments, current_msgid_lines,
                                            current_msgstr_lines))
        /\ current_comments' = <<Head(rest)>>
        /\ current_msgid_lines' = <<>>

C16_CommentSealsOpenMsgstr == [][C16_Step]_vars

(***************************************************************************)
(* C17: at the end of the input the in-progress entry is appended as the   *)
(* last entry if and only if it has at least one msgid line, so that a     *)
(* text gives the same entries with and without a blank line at its end.   *)
(***************************************************************************)
C17_EndStep ==
    (pc = "parse" /\ rest = <<>>) =>
        /\ current_msgid_lines # <<>> =>
              parsed' = Append(entries, Entry(current_comments, current_msgid_lines,
                                              current_msgstr_lines))
        /\ current_msgid_lines = <<>> => parsed' = entries

C17_TrailingBlankLine ==
    JustParsed => parse_po_file(content \o "\n") = parsed

C17_EndOfInputSealing == [][C17_EndStep]_vars /\ [](C17_TrailingBlankLine)

\* the text ends in a msgstr line, without newline, and the entry that was in
\* progress at the end of the input is the last entry returned
C17_Witness ==
    /\ JustParsed
    /\ content # ""
    /\ CharAt(content, Len(content)) # "\n"
    /\ in_msgstr
    /\ Len(parsed) = 2
    /\ Last(parsed) = Entry(current_comments, current_msgid_lines, current_msgstr_lines)

(***************************************************************************)
(* C18: every entry that parse_po_file returns has at least one msgid      *)
(* line; as long as no msgid line is collected nothing is emitted, and the *)
(* comments collected so far are kept and only added to.                   *)
(***************************************************************************)
IsPrefix(s, t) == Len(s) <= Len(t) /\ SubSeq(t, 1, Len(s)) = s

C18_EntriesHaveMsgid ==
    /\ \A i \in 1..Len(entries) : entries[i].msgid_lines # <<>>
    /\ \A i \in 1..Len(parsed) : parsed[i].msgid_lines # <<>>

C18_CommentsAccumulate ==
    (pc = "parse" /\ current_msgid_lines = <<>>) =>
        /\ entries' = entries
        /\ IsPrefix(current_comments, current_comments')

C18_EntryInvariant == [](C18_EntriesHaveMsgid) /\ [][C18_CommentsAccumulate]_vars

\* two comment lines with a blank line between them came out as the comments
\* of the one entry that opened after them
C18_Witness ==
    /\ JustParsed
    /\ Len(parsed) = 1
    /\ Len(parsed[1].comments) = 2
    /\ Split(content)[2] = ""
    /\ StartsWith(Split(content)[1], "#")

(***************************************************************************)
(* C19: the entries come out in source order, every line of an entry       *)
(* before every line of the next one, and the fill loop keeps the number   *)
(* and the order of the entries: what is handed to rebuild_po_file differs *)
(* from the parse result only in the msgstr_lines of the filled entries.   *)
(***************************************************************************)
\* the lines of the text that entry e takes, in their order in the text
OwnedLines(lines, e) ==
    LET idx == {i \in 1..Len(lines) : LineOwner(lines, i) = e}
        nth[k \in 0..Cardinality(idx)] ==
            IF k = 0 THEN 0 ELSE Min({i \in idx : i > nth[k - 1]})
    IN  [k \in 1..Cardinality(idx) |-> lines[nth[k]]]

C19_SourceOrder ==
    JustParsed =>
        LET lines == Split(content)
        IN  /\ \A i, j \in 1..Len(lines) :
                  (i < j /\ LineOwner(lines, i) # 0 /\ LineOwner(lines, j) # 0)
                      => LineOwner(lines, i) <= LineOwner(lines, j)
            /\ \A e \in 1..Len(parsed) :
                  SameLines(EntryLines(parsed[e]), OwnedLines(lines, e))

C19_FillKeepsEntries ==
    (pc \in {"fill", "returned"} /\ lang \in DOMAIN TRANSLATIONS) =>
        /\ Len(entries) = Len(parsed)
        /\ \A i \in 1..Len(parsed) :
              /\ entries[i].comments = parsed[i].comments
              /\ entries[i].msgid_lines = parsed[i].msgid_lines
              /\ i \notin fills => entries[i] = parsed[i]

C19_RebuildStep ==
    (pc = "fill" /\ writes' # writes) => disk' = rebuild_po_file(entries)

C19_SourceOrderAndStability ==
    /\ [](C19_SourceOrder)
    /\ [](C19_FillKeepsEntries)
    /\ [][C19_RebuildStep]_vars

\* two different entries were parsed, one of them was filled, and the file
\* was rewritten from the two
C19_Witness ==
    /\ pc = "returned"
    /\ Len(parsed) = 2
    /\ parsed[1] # parsed[2]
    /\ Cardinality(fills) = 1
    /\ entries # parsed
    /\ writes > 0

(***************************************************************************)
(* C20: a bare quoted line is appended to msgid_lines while the msgid      *)
(* field is the active one, to msgstr_lines while the msgstr field is the  *)
(* active one, and leaves the parser state as it is when neither is.       *)
(***************************************************************************)
C20_Step ==
    (pc = "parse" /\ rest # <<>> /\ StartsWith(Head(rest), "\"")) =>
        /\ in_msgid =>
              /\ current_msgid_lines' = Append(current_msgid_lines, Head(rest))
              /\ current_msgstr_lines' = current_msgstr_lines
        /\ in_msgstr =>
              /\ current_msgstr_lines' = Append(current_msgstr_lines, Head(rest))
              /\ current_msgid_lines' = current_msgid_lines
        /\ (~in_msgid /\ ~in_msgstr) =>
              /\ current_msgid_lines' = current_msgid_lines
              /\ current_msgstr_lines' = current_msgstr_lines
        /\ UNCHANGED <<entries, current_comments, in_msgid, in_msgstr>>

C20_ContinuationRouting == [][C20_Step]_vars

\* a quoted line at the start of the text went to no entry, one after the
\* msgid line went to msgid_lines and one after the msgstr line to msgstr_lines
C20_Witness ==
    /\ JustParsed
    /\ Split(content) = <<"\"\"", "msgid \"Retry\"", "\"\"", "msgstr \"\"", "\"\"">>
    /\ parsed = <<Entry(<<>>, <<"msgid \"Retry\"", "\"\"">>, <<"msgstr \"\"", "\"\"">>)>>

(***************************************************************************)
(* C21: a blank line seals the current entry and resets the entry-building *)
(* state only if the msgstr field is open, and one more blank line at the  *)
(* start of the text or next to a blank line of the text never changes the *)
(* entries that parse_po_file returns.                                     *)
(***************************************************************************)
\* lines with an empty line put in before position p
InsertBlank(lines, p) ==
    SubSeq(lines, 1, p - 1) \o <<"">> \o SubSeq(lines, p, Len(lines))

\* the positions at the start of the text or next to an empty line of it
AbsorbingPositions(lines) ==
    {p \in 1..(Len(lines) + 1) :
        \/ p = 1
        \/ p <= Len(lines) /\ lines[p] = ""
        \/ p > 1 /\ lines[p - 1] = ""}

C21_BlankStep ==
    (pc = "parse" /\ rest # <<>> /\ Head(rest) = "") =>
        /\ ~in_msgstr => UNCHANGED <<entries, current_comments, current_msgid_lines,
                                     current_msgstr_lines, in_msgid, in_msgstr>>
        /\ entries' # entries =>
              /\ in_msgstr
              /\ entries' = Append(entries, Entry(current_comments, current_msgid_lines,
                                                  current_msgstr_lines))
              /\ current_comments' = <<>>
              /\ current_msgid_lines' = <<>>
              /\ current_msgstr_lines' = <<>>
              /\ ~in_msgid'
              /\ ~in_msgstr'

C21_BlankInserted ==
    JustParsed =>
        \A p \in AbsorbingPositions(Split(content)) :
            parse_po_file(JoinNL(InsertBlank(Split(content), p))) = parsed

C21_BlankLineAbsorption == [][C21_BlankStep]_vars /\ [](C21_BlankInserted)

\* a text with a leading blank line and two blank lines in a row after a
\* record, which came out as one entry
C21_Witness ==
    /\ JustParsed
    /\ Len(parsed) = 1
    /\ parsed[1].msgstr_lines # <<>>
    /\ Split(content)[1] = ""
    /\ \E i \in 2..(Len(Split(content)) - 1) :
          Split(content)[i] = "" /\ Split(content)[i + 1] = ""
    /\ current_msgid_lines = <<>>

(***************************************************************************)
(* C22: main takes the language codes in list order; a file is written     *)
(* only after its read is complete, at most once, and the next file is     *)
(* opened only after the call for the file before it has returned; the     *)
(* total that main reports is the sum of the counts of the languages.      *)
(***************************************************************************)
\* the log records of the given kind, in their order
LogOf(kind) == SelectSeq(log, LAMBDA r : r.kind = kind)

RECURSIVE SumN(_)
SumN(rs) == IF rs = <<>> THEN 0 ELSE Head(rs).n + SumN(Tail(rs))

\* a call of fill_translations is under way or has returned and is not yet reported
InCall == pc \in {"parse", "fill", "returned"}

C22_OpenStep ==
    (mi > 0 /\ reads' # reads) =>
        /\ pc = "idle"
        /\ lang = languages[mi]
        /\ Len(log) = mi - 1
        /\ Len(ret) = reads
        /\ reads' = reads + 1
        /\ content' = ReadText(disk)
        /\ writes' = writes

C22_WriteStep ==
    (mi > 0 /\ writes' # writes) =>
        /\ pc = "fill"
        /\ rest = <<>>
        /\ lang = languages[mi]
        /\ reads = Len(ret) + 1
        /\ writes' = writes + 1
        /\ reads' = reads
        /\ pc' = "returned"

C22_OneCyclePerFile ==
    mi > 0 =>
        /\ \A k \in 1..Len(log) : k <= Len(languages) => log[k].lang = languages[k]
        /\ reads = Len(LogOf("filled")) + (IF InCall THEN 1 ELSE 0)
        /\ writes = Cardinality({k \in 1..Len(ret) : ret[k] > 0})
        /\ Len(ret) = Len(LogOf("filled")) + (IF pc = "returned" THEN 1 ELSE 0)
        /\ \A k \in 1..Len(LogOf("filled")) : LogOf("filled")[k].n = ret[k]

C22_Total ==
    (mi > 0 /\ pc = "exit") =>
        /\ Len(LogOf("total")) = 1
        /\ Last(log).kind = "total"
        /\ Last(log).n = SumN(LogOf("filled"))

C22_SequentialProcessing ==
    /\ [][C22_OpenStep]_vars
    /\ [][C22_WriteStep]_vars
    /\ [](C22_OneCyclePerFile)
    /\ [](C22_Total)

\* main came to its end after it filled and rewrote the catalogs of both
\* languages, one after the other
C22_Witness ==
    /\ pc = "exit"
    /\ reads = 2
    /\ writes = 2
    /\ Len(LogOf("filled")) = 2
    /\ \A k \in 1..2 : log[k].n > 0
    /\ Last(log).n = log[1].n + log[2].n

(***************************************************************************)
(* Catalogs with malformed msgid lines                                     *)
(***************************************************************************)
\* msgid keyword lines: without quotes, with the closing quote missing, in
\* single quotes, and two well-formed ones
MsgidHeads ==
    {"msgid Retry", "msgid \"Retry", "msgid 'Retry'", "msgid \"Retry\"", "msgid \"\""}

\* one record: lines before the msgid line, the msgid line, continuation
\* lines, the msgstr line
MalformedRecords ==
    {pre \o <<head>> \o cont \o <<tail>> :
        pre \in {<<>>, <<"# c", "msgctxt \"m\"">>},
        head \in MsgidHeads,
        cont \in {<<>>, <<"\"Retry\"">>},
        tail \in {"msgstr \"\"", "msgstr \"x\""}}

\* a record alone, or followed by a blank line and a well-formed record
MalformedTexts ==
    {JoinNL(r \o post) :
        r \in MalformedRecords,
        post \in {<<"">>, <<"", "msgid \"Info\"", "msgstr \"\"", "">>}}

InitMalformed ==
    /\ disk \in MalformedTexts
    /\ lang \in Langs
    /\ pc = "idle"
    /\ content = ""
    /\ rest = <<>>
    /\ entries = <<>>
    /\ current_comments = <<>>
    /\ current_msgid_lines = <<>>
    /\ current_msgstr_lines = <<>>
    /\ in_msgid = FALSE
    /\ in_msgstr = FALSE
    /\ ei = 0
    /\ filled = 0
    /\ parsed = <<>>
    /\ fills = {}
    /\ ret = <<>>
    /\ after = <<>>
    /\ reads = 0
    /\ writes = 0
    /\ arg = <<>>
    /\ res = <<>>
    /\ NoMain

SpecMalformed == InitMalformed /\ [][Next]_vars

(***************************************************************************)
(* C23: an entry whose msgid keyword line carries no well-formed quoted    *)
(* string is not matched against the translation table and is not filled,  *)
(* and the call returns as for any other catalog.                          *)
(***************************************************************************)
\* the line is the keyword, one space and a string in double quotes
WellFormedField(kw, line) ==
    /\ StartsWith(line, kw \o " \"")
    /\ Len(line) >= Len(kw) + 3
    /\ CharAt(line, Len(line)) = "\""

\* the entries of the parse result whose msgid keyword line is malformed
MalformedEntries ==
    {i \in 1..Len(parsed) : ~WellFormedField("msgid", parsed[i].msgid_lines[1])}

C23_MalformedNeverFilled ==
    (pc \in {"fill", "returned"} /\ lang \in DOMAIN TRANSLATIONS) =>
        \A i \in MalformedEntries :
            /\ extract_msgid(parsed[i].msgid_lines) \notin DOMAIN TRANSLATIONS[lang]
            /\ i \notin fills
            /\ entries[i] = parsed[i]

(***************************************************************************)
(* The rewrite of the catalog, interrupted                                 *)
(***************************************************************************)
\* what the file holds when the process stops between open(filepath, 'w'),
\* which empties the file, and the end of f.write(content)
PartsWritten(text) == {SubSeq(text, 1, n) : n \in 0..(Len(text) - 1)}

\* the new text is written to another file that replaces the catalog when it
\* is complete
WriteInterrupted_Atomic ==
    /\ pc = "fill"
    /\ ei > Len(entries)
    /\ MustRewrite(filled)
    /\ disk' \in {disk, rebuild_po_file(entries)}
    /\ writes' = writes + 1
    /\ pc' = "interrupted"
    /\ UNCHANGED <<lang, parserVars, fillVars, ret, after, reads, pureVars, mainVars>>

\* if filled > 0: open(filepath, 'w'), f.write(content), and the process is
\* stopped before the write is complete
WriteInterrupted ==
    /\ pc = "fill"
    /\ ei > Len(entries)
    /\ MustRewrite(filled)
    /\ disk' \in PartsWritten(rebuild_po_file(entries))
    /\ writes' = writes + 1
    /\ pc' = "interrupted"
    /\ UNCHANGED <<lang, parserVars, fillVars, ret, after, reads, pureVars, mainVars>>

NextInterrupt ==
    \/ Next
    \/ WriteInterrupted

SpecInterrupt == InitCatalog /\ [][NextInterrupt]_vars

(***************************************************************************)
(* C24: the filled catalog is written in place, so that whenever a rewrite *)
(* is about to start, an interruption of it can leave the file with a text *)
(* that is neither the text it held before nor the complete new text; what *)
(* an interrupted rewrite leaves is a part of the new text.                *)
(***************************************************************************)
C24_NonTransactionalRewrite ==
    /\ (pc = "fill" /\ ei > Len(entries) /\ MustRewrite(filled)) =>
          ENABLED (WriteInterrupted /\ disk' \notin {disk, rebuild_po_file(entries)})
    /\ pc = "interrupted" =>
          /\ IsPrefix(disk, rebuild_po_file(entries))
          /\ disk # rebuild_po_file(entries)

\* an interrupted rewrite left a part of the new text that is not empty and
\* is neither the text read nor the new text
C24_Witness ==
    /\ pc = "interrupted"
    /\ disk # ""
    /\ disk # content
    /\ disk # rebuild_po_file(entries)
    /\ IsPrefix(disk, rebuild_po_file(entries))

(***************************************************************************)
(* main with failing reads and writes                                      *)
(***************************************************************************)
\* open(filepath, 'r') or f.read() raises, the error handled as a count of 0
ReadFails_Masked ==
    /\ CanCall
    /\ lang \in DOMAIN TRANSLATIONS
    /\ reads' = reads + 1
    /\ ret' = Append(ret, 0)
    /\ after' = Append(after, disk)
    /\ pc' = "returned"
    /\ UNCHANGED <<disk, lang, parserVars, fillVars, writes, pureVars, mainVars>>

\* open(filepath, 'r') or f.read() raises: nothing catches the error
ReadFails ==
    /\ CanCall
    /\ lang \in DOMAIN TRANSLATIONS
    /\ reads' = reads + 1
    /\ pc' = "error"
    /\ UNCHANGED <<disk, lang, parserVars, fillVars, ret, after, writes, pureVars, mainVars>>

\* open(filepath, 'w') raises and the file is as it was, or f.write(content)
\* raises after a part of the text: nothing catches the error
WriteFails ==
    /\ pc = "fill"
    /\ ei > Len(entries)
    /\ MustRewrite(filled)
    /\ disk' \in {disk} \cup PartsWritten(rebuild_po_file(entries))
    /\ writes' = writes + 1
    /\ pc' = "error"
    /\ UNCHANGED <<lang, parserVars, fillVars, ret, after, reads, pureVars, mainVars>>

NextIO ==
    \/ NextMain
    \/ ReadFails
    \/ WriteFails

SpecIO == InitMain /\ [][NextIO]_vars

(***************************************************************************)
(* C25: a failure of the read or of the write of a catalog ends the run    *)
(* with the error: no step follows it, no count is returned or reported    *)
(* for the file, and within one call the file is opened for reading at     *)
(* most once and for writing at most once.                                 *)
(***************************************************************************)
\* a read that does not put the parser at the first line, or a write that
\* does not leave the new text in the file, has failed
C25_FailStep ==
    (\/ reads' # reads /\ pc' # "parse"
     \/ writes' # writes /\ disk' # rebuild_po_file(entries)) =>
        /\ pc' = "error"
        /\ ret' = ret
        /\ after' = after
        /\ UNCHANGED <<mi, total_filled, log>>

C25_NoStepAfterError == pc = "error" => UNCHANGED vars

C25_OpenedOnce ==
    /\ reads' # reads => (CanCall /\ reads' = reads + 1 /\ pc' \in {"parse", "error"})
    /\ writes' # writes => (pc = "fill" /\ writes' = writes + 1 /\ pc' \in {"returned", "error"})

C25_OncePerFile ==
    mi > 0 =>
        /\ reads = Len(ret) + (IF pc \in {"parse", "fill", "error"} THEN 1 ELSE 0)
        /\ writes <= reads
        /\ Len(ret) = Len(LogOf("filled")) + (IF pc = "returned" THEN 1 ELSE 0)

C25_IOFailurePropagates ==
    /\ [][C25_FailStep]_vars
    /\ [][C25_NoStepAfterError]_vars
    /\ [][C25_OpenedOnce]_vars
    /\ [](C25_OncePerFile)

\* main filled the catalog of the first language, and the write of the
\* catalog of the second one failed after a part of the text
C25_Witness ==
    /\ pc = "error"
    /\ mi = 2
    /\ log = <<[kind |-> "filled", lang |-> languages[1], n |-> 1]>>
    /\ reads = 2
    /\ writes = 2
    /\ disk # content
    /\ Len(ret) = 1

(***************************************************************************)
(* C26: in every state of the parser loop in_msgid and in_msgstr are not   *)
(* both set, in_msgid is set only while current_msgid_lines is not empty   *)
(* and in_msgstr only while current_msgstr_lines is not empty.             *)
(***************************************************************************)
C26_FlagExclusivity ==
    /\ ~(in_msgid /\ in_msgstr)
    /\ in_msgid => current_msgid_lines # <<>>
    /\ in_msgstr => current_msgstr_lines # <<>>

\* the parser is in the msgid field of a second entry, after a msgid line
\* sealed the first one while its msgstr field was open
C26_Witness ==
    /\ pc = "parse"
    /\ in_msgid
    /\ Len(entries) = 1
    /\ entries[1].msgstr_lines # <<>>
    /\ Len(current_msgid_lines) = 1
    /\ current_msgstr_lines = <<>>
    /\ Len(Split(content)) - Len(rest) = 3

(***************************************************************************)
(* C27: every entry that parse_po_file returns, except the last, has at    *)
(* least one msgstr line; the first line of msgid_lines is a msgid keyword *)
(* line and the first line of msgstr_lines, if there is one, is a msgstr   *)
(* keyword line.                                                           *)
(***************************************************************************)
C27_EntryShape ==
    JustParsed =>
        /\ \A i \in 1..(Len(parsed) - 1) : parsed[i].msgstr_lines # <<>>
        /\ \A i \in 1..Len(parsed) :
              /\ parsed[i].msgid_lines # <<>>
              /\ StartsWith(parsed[i].msgid_lines[1], "msgid ")
              /\ parsed[i].msgstr_lines # <<>> =>
                    StartsWith(parsed[i].msgstr_lines[1], "msgstr ")

\* a first entry with a continuation line in each field, and a last entry
\* that the end of the input sealed without a msgstr line
C27_Witness ==
    /\ JustParsed
    /\ Len(parsed) = 2
    /\ Len(parsed[1].msgid_lines) = 2
    /\ Len(parsed[1].msgstr_lines) = 2
    /\ parsed[2].msgstr_lines = <<>>

(***************************************************************************)
(* C28: a line that is not blank, not a comment, not a msgid line, not a   *)
(* msgstr line and not a bare quoted line leaves the flags, the pending    *)
(* comments, msgid and msgstr lines and the emitted entries unchanged, and *)
(* is a line of no entry.                                                  *)
(***************************************************************************)
Unrecognized(line) ==
    /\ ~StripIsEmpty(line)
    /\ ~StartsWith(line, "#")
    /\ ~StartsWith(line, "msgid ")
    /\ ~StartsWith(line, "msgstr ")
    /\ ~StartsWith(line, "\"")

HasUnrecognized(lines) == \E i \in 1..Len(lines) : Unrecognized(lines[i])

C28_Step ==
    (pc = "parse" /\ rest # <<>> /\ Unrecognized(Head(rest))) =>
        UNCHANGED <<entries, current_comments, current_msgid_lines,
                    current_msgstr_lines, in_msgid, in_msgstr>>

C28_InNoEntry ==
    /\ ~HasUnrecognized(AllEntryLines(entries))
    /\ ~HasUnrecognized(AllEntryLines(parsed))
    /\ ~HasUnrecognized(current_comments \o current_msgid_lines \o current_msgstr_lines)

C28_UnrecognizedLines == [][C28_Step]_vars /\ [](C28_InNoEntry)

\* an unrecognized line stood between the msgid line and the msgstr line of
\* the one entry of the text, which came out without it
C28_Witness ==
    /\ JustParsed
    /\ Len(parsed) = 1
    /\ Len(parsed[1].msgid_lines) = 1
    /\ Len(parsed[1].msgstr_lines) = 1
    /\ \E i \in 2..(Len(Split(content)) - 1) :
          /\ Unrecognized(Split(content)[i])
          /\ StartsWith(Split(content)[i - 1], "msgid ")
          /\ StartsWith(Split(content)[i + 1], "msgstr ")

====
